---- MODULE Spec2Model ----
(***************************************************************************)
(* Plant Health Monitoring System (smartirrigation_finalcode.ino).         *)
(*                                                                         *)
(* The sketch is modelled statement by statement: setup(), one tick of     *)
(* loop() with updatePlantHealth() inlined at its call, and the /health    *)
(* request handler, which the asynchronous web server may run between any  *)
(* two statements of the main program once server.begin() was called.      *)
(*                                                                         *)
(* Numbers.  The sketch keeps its readings in C floats.  A float is        *)
(* modelled as a record [nan, v]: nan tells a not-a-number (what the DHT   *)
(* driver returns for a failed read), v is the value in tenths of a unit   *)
(* (the resolution of the DHT11, and enough to represent lux/10 exactly    *)
(* for whole lux).  Every comparison with a NaN is false, as in C.         *)
(***************************************************************************)
EXTENDS Integers, Sequences, FiniteSets

VARIABLES
    pc,                  \* position of the main program (setup, then loop)
    wifiRetries,         \* setup's local retry counter (line 111)
    wifiSeen,            \* value of the latest WiFi.status() call made by setup
    routes,              \* routes registered with the AsyncWebServer
    serverBegun,         \* number of server.begin() calls made
    rawMoisture,         \* loop's local rawMoisture (line 129)
    lightIntensity,      \* loop's local lightIntensity, whole lux (line 133)
    moisturePercentage,  \* global float (line 36)
    lightPercentage,     \* global float (line 39)
    temperature,         \* global float (line 40)
    humidity,            \* global float (line 41)
    plantHealthStatus,   \* global String (line 45)
    plantHealthReason,   \* global String (line 46), as the sequence of appended fragments
    relayPin,            \* level last written to RELAY_PIN; "UNSET" before the first write
    response             \* /health body sent by the step just taken, NoResponse otherwise

vars == << pc, wifiRetries, wifiSeen, routes, serverBegun, rawMoisture, lightIntensity,
           moisturePercentage, lightPercentage, temperature, humidity,
           plantHealthStatus, plantHealthReason, relayPin, response >>

----------------------------------------------------------------------------
(* Floats *)

Tenths(x) == x * 10

Float(x) == [nan |-> FALSE, v |-> Tenths(x)]

FloatTenths(t) == [nan |-> FALSE, v |-> t]

NaN == [nan |-> TRUE, v |-> 0]

FLt(a, k) == ~a.nan /\ a.v < Tenths(k)

FGt(a, k) == ~a.nan /\ a.v > Tenths(k)

FGe(a, k) == ~a.nan /\ a.v >= Tenths(k)

FLe(a, k) == ~a.nan /\ a.v <= Tenths(k)

\* C integer division: the quotient is truncated toward zero.
TruncDiv(a, b) ==
    IF (a >= 0) = (b > 0) \/ a = 0
    THEN (IF a >= 0 THEN a ELSE -a) \div (IF b >= 0 THEN b ELSE -b)
    ELSE -((IF a >= 0 THEN a ELSE -a) \div (IF b >= 0 THEN b ELSE -b))

----------------------------------------------------------------------------
(* Program constants *)

MAX_WIFI_RETRIES == 10

ADC_MAX == 1023

CAL_WET == 405

CAL_DRY == 870

LUX_FULL == 1000

WL_CONNECTED == "WL_CONNECTED"

WL_DISCONNECTED == "WL_DISCONNECTED"

WL_IDLE_STATUS == "WL_IDLE_STATUS"

WifiStatuses == {WL_CONNECTED, WL_DISCONNECTED}

NoResponse == [status |-> "none", reason |-> << >>]

----------------------------------------------------------------------------
(* Bounds and sampled inputs *)

\* Largest lux reading of the conversion specification (the sensor reaches 54612).
MaxLux == 1100

\* Error returns of BH1750::readLightLevel are -1 and -2.
LuxErrors == {-2, -1}

\* Raw moisture readings of the whole-program specification: out of calibration
\* (0, 1023), the calibration ends (405, 870), and the raw values either side of
\* 80% (497, 498) and of 50% (642, 643).
RawSamples == {0, CAL_WET, 497, 498, 642, 643, CAL_DRY, ADC_MAX}

\* Lux readings: a driver error, either side of 60% and of 80%, and above full scale.
LuxSamples == {-2, 599, 600, 800, 801, 1200}

\* DHT readings: a failed read, and each threshold with the value a tenth outside it.
TemperatureSamples == {NaN, FloatTenths(179), Float(18), Float(24), FloatTenths(241)}

HumiditySamples == {NaN, FloatTenths(399), Float(40), Float(65), FloatTenths(651)}

----------------------------------------------------------------------------
(* Pure functions of the sketch *)

\* Arduino map(), as the Arduino reference gives it: long arithmetic, the quotient
\* truncated toward zero, no clamping of the result.
mapMutantSwapped(x, in_min, in_max, out_min, out_max) ==
    TruncDiv((x - in_min) * (out_min - out_max), in_max - in_min) + out_max

map(x, in_min, in_max, out_min, out_max) ==
    TruncDiv((x - in_min) * (out_max - out_min), in_max - in_min) + out_min

\* line 130: the long returned by map() is stored in a float.
MoistureOf(raw) == Float(map(raw, CAL_WET, CAL_DRY, 100, 0))

\* lines 134-135: (lightIntensity / 1000.0) * 100.0, then the upper clamp.
LightOfMutantNoClamp(lux) == FloatTenths((Tenths(lux) * 100) \div LUX_FULL)

LightOf(lux) ==
    LET p == FloatTenths((Tenths(lux) * 100) \div LUX_FULL)
    IN  IF FGt(p, 100) THEN Float(100) ELSE p

\* line 53
TemperatureAtRiskMutant(t) == FLt(t, 18) \/ FGe(t, 24)

TemperatureAtRisk(t) == FLt(t, 18) \/ FGt(t, 24)

\* line 55
TemperatureFragmentMutant(t) ==
    IF FLt(t, 18) THEN "Temperature too high; " ELSE "Temperature too low; "

TemperatureFragment(t) ==
    IF FLt(t, 18) THEN "Temperature too low; " ELSE "Temperature too high; "

\* line 58
HumidityAtRisk(h) == FLt(h, 40) \/ FGt(h, 65)

\* line 60
HumidityFragment(h) ==
    IF FLt(h, 40) THEN "Humidity too low; " ELSE "Humidity too high; "

\* line 63
LightAtRisk(l) == FLt(l, 60) \/ FGt(l, 80)

\* line 65
LightFragment(l) ==
    IF FLt(l, 60) THEN "Light too low; " ELSE "Light too high; "

\* line 68
MoistureAtRisk(m) == FLt(m, 50) \/ FGt(m, 80)

\* line 70
MoistureFragment(m) ==
    IF FLt(m, 50) THEN "Moisture too low" ELSE "Moisture too high"

\* lines 145-149
RelayCommandMutantInclusive(m) == IF FLe(m, 50) THEN "LOW" ELSE "HIGH"

RelayCommandMutantHysteresis(m) ==
    IF FLt(m, 50) \/ (relayPin = "LOW" /\ FLt(m, 80)) THEN "LOW" ELSE "HIGH"

RelayCommand(m) == IF FLt(m, 50) THEN "LOW" ELSE "HIGH"

\* line 92
SetupRelayLevelMutant == "LOW"

SetupRelayLevel == "HIGH"

\* line 112: the condition of the join loop
JoinLoopContinuesMutant(st, retries) == st # WL_CONNECTED /\ retries <= MAX_WIFI_RETRIES

JoinLoopContinues(st, retries) == st # WL_CONNECTED /\ retries < MAX_WIFI_RETRIES

----------------------------------------------------------------------------
(* State after construction of the globals (lines 36-46), before setup() *)

Init ==
    /\ pc = "setup_relay"
    /\ wifiRetries = 0
    /\ wifiSeen = WL_IDLE_STATUS
    /\ routes = {}
    /\ serverBegun = 0
    /\ rawMoisture = 0
    /\ lightIntensity = 0
    /\ moisturePercentage = Float(0)
    /\ lightPercentage = Float(0)
    /\ temperature = Float(0)
    /\ humidity = Float(0)
    /\ plantHealthStatus = "Good"
    /\ plantHealthReason = << >>
    /\ relayPin = "UNSET"
    /\ response = NoResponse

----------------------------------------------------------------------------
(* setup(), lines 89-125 *)

SetupLocals == << wifiRetries, wifiSeen >>
Server == << routes, serverBegun >>
Readings == << rawMoisture, lightIntensity, moisturePercentage, lightPercentage,
               temperature, humidity >>
Health == << plantHealthStatus, plantHealthReason >>

\* lines 91-92
SetupRelay ==
    /\ pc = "setup_relay"
    /\ relayPin' = SetupRelayLevel
    /\ pc' = "setup_devices"
    /\ response' = NoResponse
    /\ UNCHANGED << SetupLocals, Server, Readings, Health >>

\* lines 95-107: display, light sensor, DHT and serial initialisation
SetupDevices ==
    /\ pc = "setup_devices"
    /\ pc' = "wifi_begin"
    /\ response' = NoResponse
    /\ UNCHANGED << SetupLocals, Server, Readings, Health, relayPin >>

\* lines 110-111
WifiBegin ==
    /\ pc = "wifi_begin"
    /\ wifiRetries' = 0
    /\ pc' = "wifi_check"
    /\ response' = NoResponse
    /\ UNCHANGED << wifiSeen, Server, Readings, Health, relayPin >>

\* line 112: the loop condition, on whatever status the radio reports
WifiCheck ==
    /\ pc = "wifi_check"
    /\ \E st \in WifiStatuses :
          /\ wifiSeen' = st
          /\ pc' = IF JoinLoopContinues(st, wifiRetries) THEN "wifi_delay" ELSE "wifi_report"
    /\ response' = NoResponse
    /\ UNCHANGED << wifiRetries, Server, Readings, Health, relayPin >>

\* lines 113-115
WifiDelay ==
    /\ pc = "wifi_delay"
    /\ wifiRetries' = wifiRetries + 1
    /\ pc' = "wifi_check"
    /\ response' = NoResponse
    /\ UNCHANGED << wifiSeen, Server, Readings, Health, relayPin >>

\* lines 117-123: the status is read again; both branches only print
WifiReport ==
    /\ pc = "wifi_report"
    /\ \E st \in WifiStatuses : wifiSeen' = st
    /\ pc' = "server_routes"
    /\ response' = NoResponse
    /\ UNCHANGED << wifiRetries, Server, Readings, Health, relayPin >>

\* line 124 and lines 174-196
setupServerRoutes ==
    /\ pc = "server_routes"
    /\ routes' = routes \cup {"/readings", "/health"}
    /\ serverBegun' = serverBegun + 1
    /\ pc' = "setup_return"
    /\ response' = NoResponse
    /\ UNCHANGED << SetupLocals, Readings, Health, relayPin >>

\* line 125: setup returns, its locals end
SetupReturn ==
    /\ pc = "setup_return"
    /\ wifiRetries' = 0
    /\ wifiSeen' = WL_IDLE_STATUS
    /\ pc' = "read_moisture"
    /\ response' = NoResponse
    /\ UNCHANGED << Server, Readings, Health, relayPin >>

Setup ==
    \/ SetupRelay
    \/ SetupDevices
    \/ WifiBegin
    \/ WifiCheck
    \/ WifiDelay
    \/ WifiReport
    \/ setupServerRoutes
    \/ SetupReturn

----------------------------------------------------------------------------
(* loop(), lines 127-172 *)

\* lines 129-130: analogRead, then the conversion
ReadMoisture(Raws, next) ==
    /\ pc = "read_moisture"
    /\ \E raw \in Raws :
          /\ rawMoisture' = raw
          /\ moisturePercentage' = MoistureOf(raw)
    /\ pc' = next
    /\ response' = NoResponse
    /\ UNCHANGED << SetupLocals, Server, lightIntensity, lightPercentage, temperature,
                    humidity, Health, relayPin >>

\* lines 133-135: readLightLevel, then the conversion and its clamp
ReadLight(Luxes, next) ==
    /\ pc = "read_light"
    /\ \E lux \in Luxes :
          /\ lightIntensity' = lux
          /\ lightPercentage' = LightOf(lux)
    /\ pc' = next
    /\ response' = NoResponse
    /\ UNCHANGED << SetupLocals, Server, rawMoisture, moisturePercentage, temperature,
                    humidity, Health, relayPin >>

\* line 138
ReadTemperature ==
    /\ pc = "read_temperature"
    /\ \E t \in TemperatureSamples : temperature' = t
    /\ pc' = "read_humidity"
    /\ response' = NoResponse
    /\ UNCHANGED << SetupLocals, Server, rawMoisture, lightIntensity, moisturePercentage,
                    lightPercentage, humidity, Health, relayPin >>

\* line 139; line 142 then calls updatePlantHealth
ReadHumidity ==
    /\ pc = "read_humidity"
    /\ \E h \in HumiditySamples : humidity' = h
    /\ pc' = "health_status"
    /\ response' = NoResponse
    /\ UNCHANGED << SetupLocals, Server, rawMoisture, lightIntensity, moisturePercentage,
                    lightPercentage, temperature, Health, relayPin >>

(* updatePlantHealth(), lines 48-72, one action per statement or if-block *)

\* line 49
ResetStatus ==
    /\ pc = "health_status"
    /\ plantHealthStatus' = "Good"
    /\ pc' = "health_reason"
    /\ response' = NoResponse
    /\ UNCHANGED << SetupLocals, Server, Readings, plantHealthReason, relayPin >>

\* line 50
ResetReason ==
    /\ pc = "health_reason"
    /\ plantHealthReason' = << >>
    /\ pc' = "check_temperature"
    /\ response' = NoResponse
    /\ UNCHANGED << SetupLocals, Server, Readings, plantHealthStatus, relayPin >>

\* One if-block of updatePlantHealth: the status is set and the fragment appended
\* when the parameter is at risk, and nothing changes otherwise.
Check(at, atRisk, fragment, next) ==
    /\ pc = at
    /\ IF atRisk
       THEN /\ plantHealthStatus' = "At Risk"
            /\ plantHealthReason' = Append(plantHealthReason, fragment)
       ELSE UNCHANGED Health
    /\ pc' = next
    /\ response' = NoResponse
    /\ UNCHANGED << SetupLocals, Server, Readings, relayPin >>

\* lines 53-56
CheckTemperature ==
    Check("check_temperature", TemperatureAtRisk(temperature),
          TemperatureFragment(temperature), "check_humidity")

\* lines 58-61
CheckHumidity ==
    Check("check_humidity", HumidityAtRisk(humidity),
          HumidityFragment(humidity), "check_light")

\* lines 63-66
CheckLight ==
    Check("check_light", LightAtRisk(lightPercentage),
          LightFragment(lightPercentage), "check_moisture")

\* lines 68-71; updatePlantHealth returns to line 145
CheckMoisture ==
    Check("check_moisture", MoistureAtRisk(moisturePercentage),
          MoistureFragment(moisturePercentage), "relay")

updatePlantHealth ==
    \/ ResetStatus
    \/ ResetReason
    \/ CheckTemperature
    \/ CheckHumidity
    \/ CheckLight
    \/ CheckMoisture

\* lines 145-149
Actuate ==
    /\ pc = "relay"
    /\ relayPin' = RelayCommand(moisturePercentage)
    /\ pc' = "render"
    /\ response' = NoResponse
    /\ UNCHANGED << SetupLocals, Server, Readings, Health >>

\* lines 152-172: the display is drawn, the delay passes and loop returns; its
\* locals end with it
Render ==
    /\ pc = "render"
    /\ rawMoisture' = 0
    /\ lightIntensity' = 0
    /\ pc' = "read_moisture"
    /\ response' = NoResponse
    /\ UNCHANGED << SetupLocals, Server, moisturePercentage, lightPercentage, temperature,
                    humidity, Health, relayPin >>

----------------------------------------------------------------------------
(* The /health handler, lines 187-193.  It runs in the server's context,     *)
(* between two statements of the main program, and runs to its end there.    *)

HealthRequest ==
    /\ serverBegun > 0
    /\ "/health" \in routes
    /\ response' = [status |-> plantHealthStatus, reason |-> plantHealthReason]
    /\ UNCHANGED << pc, SetupLocals, Server, Readings, Health, relayPin >>

----------------------------------------------------------------------------
(* The whole sketch *)

Loop ==
    \/ ReadMoisture(RawSamples, "read_light")
    \/ ReadLight(LuxSamples, "read_temperature")
    \/ ReadTemperature
    \/ ReadHumidity
    \/ updatePlantHealth
    \/ Actuate
    \/ Render

Next ==
    \/ Setup
    \/ Loop
    \/ HealthRequest

Spec == Init /\ [][Next]_vars

\* setup() is straight-line code on a running processor: each of its statements
\* is eventually executed.
FairSpec == Spec /\ WF_vars(Setup)

----------------------------------------------------------------------------
(* The unit conversions on their whole input ranges: the first tick's two     *)
(* sampling steps, from the state in which setup() leaves the sketch, over    *)
(* every reading of the 10-bit ADC and every whole lux up to MaxLux.          *)

AllRaws == 0..ADC_MAX

AllLuxes == LuxErrors \cup (0..MaxLux)

InitConvert ==
    /\ pc = "read_moisture"
    /\ wifiRetries = 0
    /\ wifiSeen = WL_IDLE_STATUS
    /\ routes = {"/readings", "/health"}
    /\ serverBegun = 1
    /\ rawMoisture = 0
    /\ lightIntensity = 0
    /\ moisturePercentage = Float(0)
    /\ lightPercentage = Float(0)
    /\ temperature = Float(0)
    /\ humidity = Float(0)
    /\ plantHealthStatus = "Good"
    /\ plantHealthReason = << >>
    /\ relayPin = SetupRelayLevel
    /\ response = NoResponse

NextConvert ==
    \/ ReadMoisture(AllRaws, "read_light")
    \/ ReadLight(AllLuxes, "read_temperature")

SpecConvert == InitConvert /\ [][NextConvert]_vars

----------------------------------------------------------------------------
(* Properties *)

SetupPositions ==
    {"setup_relay", "setup_devices", "wifi_begin", "wifi_check", "wifi_delay",
     "wifi_report", "server_routes", "setup_return"}

InSetup == pc \in SetupPositions

\* updatePlantHealth has returned and nothing was stored since
AfterUpdate == pc = "relay"

\* the actuate step of the tick has ended
AfterActuate == pc = "render"

InRange(x, lo, hi) == FGe(x, lo) /\ FLe(x, hi)

Healthy(x, lo, hi) == x.nan \/ InRange(x, lo, hi)

\* C1 as stated: after updatePlantHealth the status is "Good" exactly when all four
\* stored values lie in their inclusive healthy ranges, and "At Risk" otherwise.
C1_GoodIffAllInRange ==
    AfterUpdate =>
        /\ plantHealthStatus \in {"Good", "At Risk"}
        /\ plantHealthStatus = "Good" <=>
              /\ InRange(temperature, 18, 24)
              /\ InRange(humidity, 40, 65)
              /\ InRange(lightPercentage, 60, 80)
              /\ InRange(moisturePercentage, 50, 80)

\* C1 amended: after updatePlantHealth the status is "Good" exactly when each of the
\* four stored values lies in its inclusive healthy range or is not a number (a NaN
\* is neither below the lower nor above the upper bound), and "At Risk" otherwise.
C1_GoodIffNoneOutside ==
    AfterUpdate =>
        /\ plantHealthStatus \in {"Good", "At Risk"}
        /\ plantHealthStatus = "Good" <=>
              /\ Healthy(temperature, 18, 24)
              /\ Healthy(humidity, 40, 65)
              /\ Healthy(lightPercentage, 60, 80)
              /\ Healthy(moisturePercentage, 50, 80)

\* C1 witness: a failed temperature read, everything else healthy, classified "Good".
C1_Witness ==
    /\ AfterUpdate
    /\ temperature = NaN
    /\ InRange(humidity, 40, 65)
    /\ InRange(lightPercentage, 60, 80)
    /\ InRange(moisturePercentage, 50, 80)
    /\ plantHealthStatus = "Good"

Fragment(x, lo, hi, low, high) ==
    IF FLt(x, lo) THEN << low >> ELSE IF FGt(x, hi) THEN << high >> ELSE << >>

ExpectedReason(t, h, l, m) ==
    Fragment(t, 18, 24, "Temperature too low; ", "Temperature too high; ")
    \o Fragment(h, 40, 65, "Humidity too low; ", "Humidity too high; ")
    \o Fragment(l, 60, 80, "Light too low; ", "Light too high; ")
    \o Fragment(m, 50, 80, "Moisture too low", "Moisture too high")

\* C2: after updatePlantHealth the reason is the concatenation, in the order
\* temperature, humidity, light, moisture, of the "too low" fragment of each value
\* below its lower bound and the "too high" fragment of each value above its upper
\* bound, and of nothing else.
C2_ReasonIsFragmentsInOrder ==
    AfterUpdate =>
        plantHealthReason =
            ExpectedReason(temperature, humidity, lightPercentage, moisturePercentage)

\* C2 witness: all four values out of range, four fragments.
C2_Witness ==
    /\ AfterUpdate
    /\ plantHealthReason = << "Temperature too low; ", "Humidity too high; ",
                              "Light too low; ", "Moisture too high" >>

\* C3: at the end of the actuate step the relay is LOW exactly when the moisture
\* computed in this tick is below 50, and HIGH otherwise.
C3_RelayIffDry ==
    AfterActuate =>
        /\ relayPin \in {"LOW", "HIGH"}
        /\ relayPin = "LOW" <=> FLt(moisturePercentage, 50)
        /\ moisturePercentage = MoistureOf(rawMoisture)

\* C3 witness: a moisture of exactly 50 leaves the pump off.
C3_Witness ==
    /\ AfterActuate
    /\ moisturePercentage = Float(50)
    /\ relayPin = "HIGH"

\* C4: for a raw reading in the calibration range the stored percentage is 100 at
\* 405, 0 at 870, and no smaller than the percentage of any larger raw reading of
\* the range.
C4_MapMonotoneWithEndpoints ==
    (pc = "read_light" /\ rawMoisture \in CAL_WET..CAL_DRY) =>
        /\ rawMoisture = CAL_WET => moisturePercentage = Float(100)
        /\ rawMoisture = CAL_DRY => moisturePercentage = Float(0)
        /\ \A r \in CAL_WET..CAL_DRY :
              r >= rawMoisture => MoistureOf(r).v <= moisturePercentage.v

\* C4 witness: the dry end of the calibration range maps to 0.
C4_Witness ==
    /\ pc = "read_light"
    /\ rawMoisture = CAL_DRY
    /\ moisturePercentage = Float(0)

\* C5: after the light conversion the percentage is 100 for a reading of 1000 lux
\* or more, lux/10 for a reading in [0,1000), and never above 100.
C5_LightClamped ==
    pc = "read_temperature" =>
        /\ lightIntensity >= LUX_FULL => lightPercentage = Float(100)
        /\ (lightIntensity >= 0 /\ lightIntensity < LUX_FULL) =>
              lightPercentage = FloatTenths(lightIntensity)
        /\ FLe(lightPercentage, 100)

\* C5 witness: a reading above full scale is stored as 100.
C5_Witness ==
    /\ pc = "read_temperature"
    /\ lightIntensity > LUX_FULL
    /\ lightPercentage = Float(100)

\* C6 as stated: the stored moisture percentage always lies in [0,100].
C6_MoistureWithinPercent == InRange(moisturePercentage, 0, 100)

\* C7 as stated: no /health response carries the status "Good" with a reason that is
\* not empty.
C7_GoodResponseHasNoReason ==
    response # NoResponse => ~(response.status = "Good" /\ response.reason # << >>)

\* C8: setup makes at most 10 retry delays, makes none once it has seen the status
\* connected, calls server.begin exactly once with both routes registered, and ends.
C8_SetupEndsWithServerStarted ==
    /\ [](wifiRetries <= MAX_WIFI_RETRIES)
    /\ [](pc = "wifi_delay" => wifiSeen # WL_CONNECTED /\ wifiRetries < MAX_WIFI_RETRIES)
    /\ [](serverBegun <= 1)
    /\ [](pc \notin SetupPositions \ {"setup_return"} =>
             serverBegun = 1 /\ routes = {"/readings", "/health"})
    /\ <>(~InSetup)

\* C8 witness: the join failed after 10 delays and the server was started.
C8_Witness ==
    /\ pc = "setup_return"
    /\ wifiRetries = MAX_WIFI_RETRIES
    /\ wifiSeen = WL_DISCONNECTED
    /\ serverBegun = 1

\* C9: what a tick leaves behind is a function of its four readings: status and
\* reason once classified, the relay level once actuated, whatever the tick before
\* left in them.
C9_TickOutcomeFromReadingsOnly ==
    LET m == MoistureOf(rawMoisture)
        l == LightOf(lightIntensity)
        reason == ExpectedReason(temperature, humidity, l, m)
    IN  /\ pc \in {"relay", "render"} =>
              /\ plantHealthReason = reason
              /\ plantHealthStatus = IF reason = << >> THEN "Good" ELSE "At Risk"
        /\ pc = "render" => relayPin = IF m.v < Tenths(50) THEN "LOW" ELSE "HIGH"

\* C9 witness: the tick before was dry (the relay is still LOW from it) and this
\* tick's readings are classified "Good".
C9_Witness ==
    /\ pc = "relay"
    /\ relayPin = "LOW"
    /\ plantHealthStatus = "Good"
    /\ plantHealthReason = << >>

TickOrder ==
    << "read_moisture", "read_light", "read_temperature", "read_humidity",
       "health_status", "health_reason", "check_temperature", "check_humidity",
       "check_light", "check_moisture", "relay", "render" >>

\* C10: the relay is written HIGH by the first step of setup and stays HIGH for the
\* rest of setup; it becomes LOW only in the actuate step of a tick whose moisture is
\* below 50, after that tick's sampling, conversion and classification, the steps of
\* a tick being taken in their fixed order.
C10_PumpOffUntilDryTick ==
    /\ [](relayPin = "UNSET" <=> pc = "setup_relay")
    /\ [](InSetup /\ pc # "setup_relay" => relayPin = "HIGH")
    /\ [][(relayPin # "LOW" /\ relayPin' = "LOW") =>
             /\ pc = "relay"
             /\ moisturePercentage = MoistureOf(rawMoisture)
             /\ FLt(moisturePercentage, 50)
             /\ plantHealthStatus = "At Risk"
             /\ plantHealthReason # << >>
             /\ plantHealthReason[Len(plantHealthReason)] = "Moisture too low"]_vars
    /\ [][(~InSetup /\ pc' # pc) =>
             \E i \in 1..Len(TickOrder) :
                 /\ pc = TickOrder[i]
                 /\ pc' = TickOrder[(i % Len(TickOrder)) + 1]]_vars

\* C10 witness: the pump was switched on by a tick that sampled dry soil.
C10_Witness ==
    /\ pc = "render"
    /\ relayPin = "LOW"
    /\ FLt(moisturePercentage, 50)

====
